---- MODULE Spec2Model ----
(***************************************************************************)
(* VitalWatch client core (frontend/src/App.js): cached registries,        *)
(* status resolution, poll synchronisation, session start/stop, auth guard.*)
(*                                                                         *)
(* Rendering is taken as atomic with the state change that causes it: the  *)
(* view, the closures handed to new event handlers and the auto-refresh    *)
(* effect (and its cleanup) follow every setState in the same step.        *)
(* An async handler keeps the closure of the render that created it, so    *)
(* the isLoggedIn a running handler reads is the value at its creation.    *)
(*                                                                         *)
(* The four responses of one fetchData invocation (a tick) are handled in  *)
(* one step, when Promise.all settles.  The server answers the requests of *)
(* a tick from one state: its state when the tick settles, or, when the    *)
(* server has changed since the tick was issued, possibly its state before *)
(* its last change (the requests were served before it and the responses   *)
(* were slow).                                                             *)
(***************************************************************************)
EXTENDS Integers, Sequences, FiniteSets, Bags, TLC

\* ---- bounds ----
MaxPatients == 1
MaxListed == 2
MaxSessions == 2
MaxAlerts == 1
MaxLedger == 2
MaxInFlight == 2
MaxReqs == 1
MaxStarts == 2
MaxFailing == 1

\* ---- data ----
Severities == {"critical", "high", "moderate"}
SessionStatuses == {"active", "stopped"}
PatientIds == 1..MaxPatients
ListedIds == 1..MaxListed
Endpoints == {"pat", "st", "al", "se"}

Null401 == <<"null">>
Thrown == <<"err">>
Data(x) == <<"data", x>>
IsData(r) == r[1] = "data"

Outs == {"ok", "401", "err"}

DefaultStats == [total_patients |-> 0, active_sessions |-> 0]

VARIABLES
  isLoggedIn,          \* useState(true)
  loading,             \* useState(false)
  loggingOut,          \* useState(false)
  user,                \* useState({username: 'Doctor', ...}), by username
  patients,            \* cached patients registry
  dashboardStats,      \* cached stats registry
  alerts,              \* cached alert ledger
  monitoringSessions,  \* cached session registry
  status,              \* badge rendered per listed patient
  timer,               \* number of armed setInterval timers
  polls,               \* fetchData invocations in flight, oldest first
  reqs,                \* bag of outstanding user/probe requests
  authFailed,          \* a request returned 401 since the last good login
  authProven,          \* a login or the probe has succeeded since the guard
                       \* was last false
  lone401,             \* endpoint that alone returned 401 in the tick the
                       \* last step handled, else "none"
  notice,              \* message of the alert() or of the handler's
                       \* console.error of the last step, else "none"
  srvPatients,         \* server: number of patients
  srvSessions,         \* server: monitoring sessions
  srvAlerts,           \* server: alerts
  srvPrev              \* server: its state before its last change

vars == <<isLoggedIn, loading, loggingOut, user, patients, dashboardStats,
          alerts, monitoringSessions, status, timer, polls, reqs,
          authFailed, authProven, lone401, notice, srvPatients, srvSessions,
          srvAlerts, srvPrev>>

clientCtl == <<isLoggedIn, loading, loggingOut, user, timer>>
inflight == <<polls, reqs>>
ghost == <<authFailed, authProven>>
server == <<srvPatients, srvSessions, srvAlerts, srvPrev>>
registries == <<patients, dashboardStats, alerts, monitoringSessions, status>>

\* ---- status resolver (App.js 220-231) ----
SomeSeq(s, P(_)) == \E i \in 1..Len(s) : P(s[i])

\* the join without session.patient_id === patient.id
recentAlertsAnyPatient(patient) ==
  LET linked(alert) ==
        LET match(session) == session.id = alert.session_id
        IN SomeSeq(monitoringSessions, match)
  IN SelectSeq(alerts, linked)

\* the join restricted to sessions under observation
recentAlertsActiveOnly(patient) ==
  LET linked(alert) ==
        LET match(session) == /\ session.patient_id = patient.id
                              /\ session.id = alert.session_id
                              /\ session.status = "active"
        IN SomeSeq(monitoringSessions, match)
  IN SelectSeq(alerts, linked)

recentAlerts(patient) ==
  LET linked(alert) ==
        LET match(session) == /\ session.patient_id = patient.id
                              /\ session.id = alert.session_id
        IN SomeSeq(monitoringSessions, match)
  IN SelectSeq(alerts, linked)

\* the high test dropped
getPatientStatusNoHigh(patient) ==
  LET ra == recentAlerts(patient)
      isCritical(alert) == alert.severity = "critical"
  IN IF SomeSeq(ra, isCritical) THEN "Critical"
     ELSE IF Len(ra) > 0 THEN "Moderate"
     ELSE "Stable"

\* the high test placed before the critical test
getPatientStatusHighFirst(patient) ==
  LET ra == recentAlerts(patient)
      isCritical(alert) == alert.severity = "critical"
      isHigh(alert) == alert.severity = "high"
  IN IF SomeSeq(ra, isHigh) THEN "High"
     ELSE IF SomeSeq(ra, isCritical) THEN "Critical"
     ELSE IF Len(ra) > 0 THEN "Moderate"
     ELSE "Stable"

getPatientStatus(patient) ==
  LET ra == recentAlerts(patient)
      isCritical(alert) == alert.severity = "critical"
      isHigh(alert) == alert.severity = "high"
  IN IF SomeSeq(ra, isCritical) THEN "Critical"
     ELSE IF SomeSeq(ra, isHigh) THEN "High"
     ELSE IF Len(ra) > 0 THEN "Moderate"
     ELSE "Stable"

\* patients.map(patient => getPatientStatus(patient)) of the two pages
RenderStatus ==
  [p \in {patients[i].id : i \in 1..Len(patients)} |->
     getPatientStatus([id |-> p])]

Rerender == status' = RenderStatus'

\* ---- inputs of the status resolver ----
SeqsUpTo(S, n) == UNION {[1..k -> S] : k \in 0..n}

SessionIds == 1..MaxSessions
AlertSessionIds == 1..(MaxSessions + 1)

\* start timestamps, as ranks
StartTimes == 1..MaxSessions

SessionRecs == [id : SessionIds, patient_id : ListedIds,
                status : SessionStatuses, start_time : StartTimes]
AlertRecs == [session_id : AlertSessionIds, severity : Severities]

DistinctIds(s) == \A i, j \in 1..Len(s) : i # j => s[i].id # s[j].id

SessionSnapshots == {s \in SeqsUpTo(SessionRecs, MaxSessions) : DistinctIds(s)}
AlertSnapshots == SeqsUpTo(AlertRecs, MaxLedger)
AllPatients == [i \in ListedIds |-> [id |-> i]]

\* ---- server (backend/app.py, known through the interface of spec section 6) ----
SrvHasActive(p) ==
  \E i \in 1..Len(srvSessions) :
    srvSessions[i].patient_id = p /\ srvSessions[i].status = "active"

SrvIsActive(sid) ==
  sid \in 1..Len(srvSessions) /\ srvSessions[sid].status = "active"

ActiveCount(sessions) ==
  Cardinality({i \in 1..Len(sessions) : sessions[i].status = "active"})

\* the state of the server
srv == [patients |-> srvPatients, sessions |-> srvSessions,
        alerts |-> srvAlerts]

\* the bodies of GET /patients, /dashboard, /alerts, /monitoring/sessions
\* served from state s
Snapshot(e, s) ==
  CASE e = "pat" -> [i \in 1..s.patients |-> [id |-> i]]
    [] e = "st"  -> [total_patients |-> s.patients,
                     active_sessions |-> ActiveCount(s.sessions)]
    [] e = "al"  -> s.alerts
    [] e = "se"  -> s.sessions

\* the server refuses a second active session of a patient (spec section 3)
StartOutcomes(p) == IF SrvHasActive(p) THEN Outs \ {"ok"} ELSE Outs

StopOutcomes(sid) == IF SrvIsActive(sid) THEN Outs ELSE Outs \ {"ok"}

\* ---- apiCall (App.js 27-52) ----
\* ok: parsed body; 401: setIsLoggedIn(false), return null; else throw
apiCall(out, body) ==
  CASE out = "ok"  -> Data(body)
    [] out = "401" -> Null401
    [] OTHER       -> Thrown

\* apiCall returns null on a 401 without touching the guard
GuardAfterKept(out) == isLoggedIn

\* the guard after a response: a 401 clears it (line 41), the cleanup of
\* the effect of 164-171 then clears the interval
GuardAfter(out) == IF out = "401" THEN FALSE ELSE isLoggedIn

\* the effect returns no cleanup
TimerAfterNoCleanup(out) == timer

TimerAfter(out) == IF out = "401" THEN 0 ELSE timer

\* the guard after the responses of a tick: line 41 runs for every 401
\* (the variant flips the guard only when every request returned 401)
GuardAfterTickAllFail(vec) ==
  IF \A e \in Endpoints : vec[e] = "401" THEN FALSE ELSE isLoggedIn

GuardAfterTick(vec) ==
  IF \E e \in Endpoints : vec[e] = "401" THEN FALSE ELSE isLoggedIn

\* the endpoint whose request alone returned 401 while the other three
\* returned data
Lone401(vec) ==
  IF \E e \in Endpoints :
       vec[e] = "401" /\ \A f \in Endpoints \ {e} : vec[f] = "ok"
  THEN CHOOSE e \in Endpoints : vec[e] = "401"
  ELSE "none"
\* the step handles no tick and writes msg
Said(msg) == lone401' = "none" /\ notice' = msg
Quiet == Said("none")

\* the catch blocks swallow the failure
NoticeNone(kind, out) == "none"

\* the alert() of the handlers: login (73-74), add (183-184), start (197,
\* 201-202), stop (214-215); the other steps show none
Notice(kind, out) ==
  CASE kind = "start" /\ out = "ok"  -> "Monitoring started"
    [] kind = "start" /\ out = "err" -> "Failed to start monitoring"
    [] kind = "stop" /\ out = "err"  -> "Failed to stop monitoring"
    [] kind = "add" /\ out = "err"   -> "Failed to add patient"
    [] kind = "login" /\ out = "err" -> "Login failed"
    [] OTHER -> "none"

\* now: the step is a successful login or probe
Proven(now) == authProven' = (isLoggedIn' /\ (authProven \/ now))

\* ---- fetchData (App.js 137-162) ----
\* a tick in flight; stale: a tick issued after it has set
\* monitoringSessions already
\* early: the server has changed since the tick was issued
NewTick == [stale |-> FALSE, early |-> FALSE]

Aged(ps) == [u \in 1..Len(ps) |-> [ps[u] EXCEPT !.early = TRUE]]

\* the guard of line 138 never lets a fetch through
fetchDataNever(closureLoggedIn) == 0

\* if (!isLoggedIn) return;  with the isLoggedIn of the caller's closure
fetchData(closureLoggedIn) == IF closureLoggedIn THEN 1 ELSE 0

\* the handler does not call fetchData
IssueNone(n, changed) ==
  polls' = (IF changed THEN Aged(polls) ELSE polls)

\* the ticks issued in a step: the four apiCalls start, setLoading(true);
\* changed: the step has changed the server before issuing them
Issue(n, changed) ==
  /\ Len(polls) + n <= MaxInFlight
  /\ polls' = (IF changed THEN Aged(polls) ELSE polls)
                 \o [i \in 1..n |-> NewTick]

\* the outcomes of the four requests of a tick: up to MaxFailing of them
\* fail on their own, or all fail alike
TickVecs ==
  {v \in [Endpoints -> Outs] :
     \/ Cardinality({e \in Endpoints : v[e] # "ok"}) <= MaxFailing
     \/ \A e \in Endpoints : v[e] = "401"
     \/ \A e \in Endpoints : v[e] = "err"}

\* the setters of the three lists add the response to what they hold
replaceMerge(e, old, new) == IF e = "st" THEN new ELSE old \o new

\* setPatients(patientsData) etc. of 149-152, by endpoint
replace(e, old, new) == new

\* a null response empties the registry
CommitOrClear(e, old, r) ==
  IF IsData(r) THEN replace(e, old, r[2])
  ELSE IF e = "st" THEN DefaultStats ELSE <<>>

\* the sessions of a response are dropped
CommitButSessions(e, old, r) ==
  IF IsData(r) /\ e # "se" THEN replace(e, old, r[2]) ELSE old

\* if (patientsData) setPatients(patientsData): null is skipped
Commit(e, old, r) == IF IsData(r) THEN replace(e, old, r[2]) ELSE old

\* error.message.includes('401') of line 156: apiCall throws
\* 'HTTP error! status: N' only for N # 401, fetch throws a TypeError
messageIncludes401(r) == FALSE

\* the responses of tick t arrive, served from the state of the server
\* before its last change (old) or from its present state: every 401 runs
\* line 41, Promise.all settles and the rest of fetchData runs
PollArrive(t, vec, old) ==
  /\ t \in 1..Len(polls)
  /\ old => polls[t].early
  /\ LET from == IF old THEN srvPrev ELSE srv
         res == [e \in Endpoints |-> apiCall(vec[e], Snapshot(e, from))]
         rejected == \E e \in Endpoints : res[e] = Thrown
         any401 == \E e \in Endpoints : vec[e] = "401"
         caught401 == rejected /\ \E e \in Endpoints :
                        res[e] = Thrown /\ messageIncludes401(res[e])
         setsSessions == ~rejected /\ IsData(res["se"])
         older(u) == [polls[u] EXCEPT !.stale = @ \/ setsSessions]
     IN /\ polls' = [u \in 1..(Len(polls) - 1) |->
                        IF u < t THEN older(u) ELSE polls[u + 1]]
        /\ isLoggedIn' = IF caught401 THEN FALSE ELSE GuardAfterTick(vec)
        /\ timer' = IF isLoggedIn' THEN timer ELSE 0
        /\ authFailed' = (authFailed \/ any401)
        /\ Proven(FALSE)
        /\ loading' = FALSE
        /\ IF ~rejected
           THEN /\ patients' = Commit("pat", patients, res["pat"])
                /\ dashboardStats' = Commit("st", dashboardStats, res["st"])
                /\ alerts' = Commit("al", alerts, res["al"])
                /\ monitoringSessions' =
                     Commit("se", monitoringSessions, res["se"])
           ELSE UNCHANGED <<patients, dashboardStats, alerts,
                            monitoringSessions>>
        /\ Rerender
        /\ lone401' = Lone401(vec)
        /\ notice' = "none"
  /\ UNCHANGED <<loggingOut, user, reqs, server>>

\* setInterval(fetchData, 30000) fires; its fetchData is the one of the
\* render that armed it, where isLoggedIn is true
TimerTick ==
  /\ timer > 0
  /\ loading' = TRUE
  /\ Quiet
  /\ UNCHANGED <<isLoggedIn, loggingOut, user, timer, registries, reqs, ghost,
                 server>>
  /\ Issue(fetchData(TRUE), FALSE)

\* ---- requests outside fetchData ----
Req(kind, arg) == [kind |-> kind, arg |-> arg]
Sent(r) == reqs (+) SetToBag({r})
Gone(r) == reqs (-) SetToBag({r})
\* at most MaxReqs different user requests are outstanding (the probe of
\* the mount aside); a Start button is pressed at most MaxStarts times while
\* its request is out, any other button once
CanSend(r) ==
  /\ Cardinality(BagToSet(reqs) \ {Req("probe", 0), r}) < MaxReqs
  /\ CopiesIn(r, reqs) < (IF r.kind = "start" THEN MaxStarts ELSE 1)

\* ---- views (App.js 483-530, 562-612) ----
Listed(p) == \E i \in 1..Len(patients) : patients[i].id = p

ActiveAt(p) ==
  {i \in 1..Len(monitoringSessions) :
     /\ monitoringSessions[i].patient_id = p
     /\ monitoringSessions[i].status = "active"}

isMonitoring(p) == ActiveAt(p) # {}

\* the find without the test of session.status
activeSessionAnyStatus(p) ==
  LET of == {i \in 1..Len(monitoringSessions) :
               monitoringSessions[i].patient_id = p}
  IN monitoringSessions[CHOOSE i \in of : \A j \in of : i <= j]

\* monitoringSessions.find(...): the first match in array order
activeSession(p) ==
  monitoringSessions[CHOOSE i \in ActiveAt(p) : \A j \in ActiveAt(p) : i <= j]

\* the Start button offered whatever the registry shows
StartMonitoringCallAnyRow(p) ==
  /\ isLoggedIn
  /\ Listed(p)
  /\ CanSend(Req("start", p))
  /\ reqs' = Sent(Req("start", p))
  /\ Quiet
  /\ UNCHANGED <<clientCtl, registries, polls, ghost, server>>

\* ---- startMonitoring (App.js 189-204) ----
\* the Start button is rendered in the rows without an active session
StartMonitoringCall(p) ==
  /\ isLoggedIn
  /\ Listed(p)
  /\ ~isMonitoring(p)
  /\ CanSend(Req("start", p))
  /\ reqs' = Sent(Req("start", p))
  /\ Quiet
  /\ UNCHANGED <<clientCtl, registries, polls, ghost, server>>

\* the request returns; if (response) { alert(...); fetchData(); }
StartMonitoringSettle(p, out) ==
  /\ BagIn(Req("start", p), reqs)
  /\ out \in StartOutcomes(p)
  /\ reqs' = Gone(Req("start", p))
  /\ isLoggedIn' = GuardAfter(out)
  /\ timer' = TimerAfter(out)
  /\ authFailed' = (authFailed \/ out = "401")
  /\ Proven(FALSE)
  /\ Said(Notice("start", out))
  /\ UNCHANGED <<loggingOut, user, srvPatients, srvAlerts>>
  /\ IF out = "ok"
     THEN /\ Len(srvSessions) < MaxSessions
          /\ srvSessions' = Append(srvSessions,
               [id |-> Len(srvSessions) + 1, patient_id |-> p,
                status |-> "active", start_time |-> Len(srvSessions) + 1])
          /\ srvPrev' = srv
          /\ Issue(fetchData(TRUE), TRUE)
          /\ loading' = TRUE
     ELSE UNCHANGED <<srvSessions, srvPrev, polls, loading>>

\* the handler also enters the session of the response in the registry
StartMonitoringReturnOptimistic(p, out) ==
  /\ StartMonitoringSettle(p, out)
  /\ monitoringSessions' =
       IF out = "ok"
       THEN Append(monitoringSessions, srvSessions'[Len(srvSessions')])
       ELSE monitoringSessions
  /\ UNCHANGED <<patients, dashboardStats, alerts>>
  /\ Rerender

\* the handler sets no registry
StartMonitoringReturn(p, out) ==
  /\ StartMonitoringSettle(p, out)
  /\ UNCHANGED registries

\* ---- stopMonitoring (App.js 207-217) ----
StopMonitoringCall(p) ==
  /\ isLoggedIn
  /\ Listed(p)
  /\ isMonitoring(p)
  /\ CanSend(Req("stop", activeSession(p).id))
  /\ reqs' = Sent(Req("stop", activeSession(p).id))
  /\ Quiet
  /\ UNCHANGED <<clientCtl, registries, polls, ghost, server>>

\* a null (401) answer does not throw, so fetchData() is still called
StopMonitoringReturn(sid, out) ==
  /\ BagIn(Req("stop", sid), reqs)
  /\ out \in StopOutcomes(sid)
  /\ reqs' = Gone(Req("stop", sid))
  /\ IF out = "ok"
     THEN /\ srvSessions' = [srvSessions EXCEPT ![sid].status = "stopped"]
          /\ srvPrev' = srv
     ELSE UNCHANGED <<srvSessions, srvPrev>>
  /\ isLoggedIn' = GuardAfter(out)
  /\ timer' = TimerAfter(out)
  /\ authFailed' = (authFailed \/ out = "401")
  /\ Proven(FALSE)
  /\ Said(Notice("stop", out))
  /\ UNCHANGED <<loggingOut, user, registries, srvPatients, srvAlerts>>
  /\ IF out # "err"
     THEN Issue(fetchData(TRUE), out = "ok") /\ loading' = TRUE
     ELSE UNCHANGED <<polls, loading>>

\* ---- addPatient (App.js 174-186) ----
AddPatientCall ==
  /\ isLoggedIn
  /\ CanSend(Req("add", 0))
  /\ reqs' = Sent(Req("add", 0))
  /\ Quiet
  /\ UNCHANGED <<clientCtl, registries, polls, ghost, server>>

AddPatientReturn(out) ==
  /\ BagIn(Req("add", 0), reqs)
  /\ out \in Outs
  /\ reqs' = Gone(Req("add", 0))
  /\ IF out = "ok"
     THEN /\ srvPatients < MaxPatients
          /\ srvPatients' = srvPatients + 1
          /\ srvPrev' = srv
     ELSE UNCHANGED <<srvPatients, srvPrev>>
  /\ isLoggedIn' = GuardAfter(out)
  /\ timer' = TimerAfter(out)
  /\ authFailed' = (authFailed \/ out = "401")
  /\ Proven(FALSE)
  /\ Said(Notice("add", out))
  /\ UNCHANGED <<loggingOut, user, registries, srvSessions, srvAlerts>>
  /\ IF out # "err"
     THEN Issue(fetchData(TRUE), out = "ok") /\ loading' = TRUE
     ELSE UNCHANGED <<polls, loading>>

\* ---- auto-refresh effect (App.js 164-171) ----
\* runs when isLoggedIn changes: on a change to true it calls the fetchData
\* of the new render and arms the interval
\* the effect arms the interval without calling fetchData
EffectTicksNone(before, after) == 0

EffectTicks(before, after) ==
  IF ~before /\ after THEN fetchData(after) ELSE 0

\* ---- handleLogin (App.js 55-78) ----
\* the form is shown while !isLoggedIn, its button is disabled while loading
HandleLoginCall ==
  /\ ~isLoggedIn
  /\ ~loading
  /\ CanSend(Req("login", 0))
  /\ loading' = TRUE
  /\ reqs' = Sent(Req("login", 0))
  /\ Quiet
  /\ UNCHANGED <<isLoggedIn, loggingOut, user, timer, registries, polls, ghost, server>>

\* fetchData() of line 70 runs in the closure of the login page (isLoggedIn
\* false) and returns at once; the effect issues the poll of the new render
HandleLoginReturn(out) ==
  /\ BagIn(Req("login", 0), reqs)
  /\ out \in Outs
  /\ reqs' = Gone(Req("login", 0))
  /\ Said(Notice("login", out))
  /\ UNCHANGED <<loggingOut, registries, server>>
  /\ IF out = "ok"
     THEN LET ticks == fetchData(FALSE) + EffectTicks(isLoggedIn, TRUE)
          IN /\ user' = "user"
             /\ isLoggedIn' = TRUE
             /\ timer' = 1
             /\ Issue(ticks, FALSE)
             /\ loading' = (ticks > 0)
             /\ authFailed' = FALSE
             /\ Proven(TRUE)
     ELSE /\ isLoggedIn' = GuardAfter(out)
          /\ timer' = TimerAfter(out)
          /\ loading' = FALSE
          /\ authFailed' = (authFailed \/ out = "401")
          /\ Proven(FALSE)
          /\ UNCHANGED <<user, polls>>

\* ---- handleLogout (App.js 81-114) ----
HandleLogoutCall ==
  /\ isLoggedIn
  /\ ~loggingOut
  /\ CanSend(Req("logout", 0))
  /\ loggingOut' = TRUE
  /\ reqs' = Sent(Req("logout", 0))
  /\ Quiet
  /\ UNCHANGED <<isLoggedIn, loading, user, timer, registries, polls, ghost, server>>

\* a thrown request clears only the user and the guard (catch, 106-110)
HandleLogoutReturn(out) ==
  /\ BagIn(Req("logout", 0), reqs)
  /\ out \in Outs
  /\ reqs' = Gone(Req("logout", 0))
  /\ user' = ""
  /\ isLoggedIn' = FALSE
  /\ timer' = 0
  /\ loggingOut' = FALSE
  /\ IF out # "err"
     THEN /\ patients' = <<>>
          /\ alerts' = <<>>
          /\ monitoringSessions' = <<>>
          /\ dashboardStats' = DefaultStats
          /\ polls' = [u \in 1..Len(polls) |->
                         [polls[u] EXCEPT !.stale = FALSE]]
     ELSE UNCHANGED <<patients, alerts, monitoringSessions, dashboardStats,
                      polls>>
  /\ Rerender
  /\ authFailed' = (authFailed \/ out = "401")
  /\ Proven(FALSE)
  /\ Said(Notice("logout", out))
  /\ UNCHANGED <<loading, server>>

\* ---- checkAuthStatus (App.js 117-134) ----
\* issued once at mount; its fetchData is the one of the first render,
\* where isLoggedIn is the useState(true) of line 19
CheckAuthStatusReturn(out) ==
  /\ BagIn(Req("probe", 0), reqs)
  /\ out \in Outs
  /\ reqs' = Gone(Req("probe", 0))
  /\ authFailed' = (authFailed \/ out = "401")
  /\ Said(Notice("probe", out))
  /\ UNCHANGED <<loggingOut, user, registries, server>>
  /\ IF out = "ok"
     THEN /\ isLoggedIn' = TRUE
          /\ timer' = 1
          /\ Issue(fetchData(TRUE) + EffectTicks(isLoggedIn, TRUE), FALSE)
          /\ loading' = TRUE
     ELSE /\ isLoggedIn' = FALSE
          /\ timer' = 0
          /\ UNCHANGED <<polls, loading>>
  /\ Proven(out = "ok")

\* ---- environment ----
\* the severities filed while the whole component runs; the resolver is
\* run over every severity in SpecStatus
FiledSeverities == {"critical"}

\* the detection pipeline files an alert for a session under observation
SrvAlert(sid, sev) ==
  /\ Len(srvAlerts) < MaxAlerts
  /\ SrvIsActive(sid)
  /\ srvAlerts' = Append(srvAlerts, [session_id |-> sid, severity |-> sev])
  /\ srvPrev' = srv
  /\ polls' = Aged(polls)
  /\ Quiet
  /\ UNCHANGED <<clientCtl, registries, reqs, ghost, srvPatients,
                 srvSessions>>

\* ---- the mounted component ----
\* useState values of lines 5-21, after both mount effects have run: the
\* probe of 117-134 is out, the effect of 164-171 has called fetchData and
\* armed the interval
Init ==
  /\ isLoggedIn = TRUE
  /\ loading = TRUE
  /\ loggingOut = FALSE
  /\ user = "Doctor"
  /\ patients = <<>>
  /\ dashboardStats = DefaultStats
  /\ alerts = <<>>
  /\ monitoringSessions = <<>>
  /\ status = <<>>
  /\ timer = 1
  /\ polls = <<NewTick>>
  /\ reqs = SetToBag({Req("probe", 0)})
  /\ authFailed = FALSE
  /\ authProven = FALSE
  /\ lone401 = "none"
  /\ notice = "none"
  /\ srvPatients = 0
  /\ srvSessions = <<>>
  /\ srvAlerts = <<>>
  /\ srvPrev = srv

Next ==
  \/ \E t \in 1..MaxInFlight, vec \in TickVecs, old \in BOOLEAN :
       PollArrive(t, vec, old)
  \/ TimerTick
  \/ \E p \in PatientIds : StartMonitoringCall(p)
  \/ \E p \in PatientIds, out \in Outs : StartMonitoringReturn(p, out)
  \/ \E p \in PatientIds : StopMonitoringCall(p)
  \/ \E sid \in SessionIds, out \in Outs : StopMonitoringReturn(sid, out)
  \/ AddPatientCall
  \/ \E out \in Outs : AddPatientReturn(out)
  \/ HandleLoginCall
  \/ \E out \in Outs : HandleLoginReturn(out)
  \/ HandleLogoutCall
  \/ \E out \in Outs : HandleLogoutReturn(out)
  \/ \E out \in Outs : CheckAuthStatusReturn(out)
  \/ \E sid \in SessionIds, sev \in FiledSeverities : SrvAlert(sid, sev)

Spec == Init /\ [][Next]_vars

\* ---- the status resolver over arbitrary snapshots ----
\* setAlerts / setMonitoringSessions (App.js 151-152) with a given snapshot
SetAlerts(new) ==
  /\ alerts' = replace("al", alerts, new)
  /\ UNCHANGED <<clientCtl, patients, dashboardStats, monitoringSessions,
                 inflight, ghost, lone401, notice, server>>
  /\ Rerender

SetMonitoringSessions(new) ==
  /\ monitoringSessions' = replace("se", monitoringSessions, new)
  /\ UNCHANGED <<clientCtl, patients, dashboardStats, alerts, inflight, ghost,
                 lone401, notice, server>>
  /\ Rerender

InitStatus ==
  /\ isLoggedIn = TRUE
  /\ loading = FALSE
  /\ loggingOut = FALSE
  /\ user = "Doctor"
  /\ patients = AllPatients
  /\ dashboardStats = DefaultStats
  /\ alerts \in AlertSnapshots
  /\ monitoringSessions \in SessionSnapshots
  /\ status = RenderStatus
  /\ timer = 1
  /\ polls = <<>>
  /\ reqs = EmptyBag
  /\ authFailed = FALSE
  /\ authProven = FALSE
  /\ lone401 = "none"
  /\ notice = "none"
  /\ srvPatients = 0
  /\ srvSessions = <<>>
  /\ srvAlerts = <<>>
  /\ srvPrev = srv

\* a later snapshot holds one more alert, one more session, or shows a
\* session stopped
NextStatus ==
  \/ \E a \in AlertRecs :
       Len(alerts) < MaxLedger /\ SetAlerts(Append(alerts, a))
  \/ \E s \in SessionRecs :
       /\ Len(monitoringSessions) < MaxSessions
       /\ DistinctIds(Append(monitoringSessions, s))
       /\ SetMonitoringSessions(Append(monitoringSessions, s))
  \/ \E i \in 1..MaxSessions :
       /\ i <= Len(monitoringSessions)
       /\ monitoringSessions[i].status = "active"
       /\ SetMonitoringSessions(
            [monitoringSessions EXCEPT ![i].status = "stopped"])

SpecStatus == InitStatus /\ [][NextStatus]_vars

\* ---- the dashboard under fair scheduling ----
\* the user does not log out and no alert is filed: the guard goes down
\* only by an authorization failure; the state after the probe has succeeded, a patient has been added and
\* a poll has committed it
InitLive ==
  /\ isLoggedIn = TRUE
  /\ loading = FALSE
  /\ loggingOut = FALSE
  /\ user = "Doctor"
  /\ patients = <<[id |-> 1]>>
  /\ dashboardStats = [total_patients |-> 1, active_sessions |-> 0]
  /\ alerts = <<>>
  /\ monitoringSessions = <<>>
  /\ status = RenderStatus
  /\ timer = 1
  /\ polls = <<>>
  /\ reqs = EmptyBag
  /\ authFailed = FALSE
  /\ authProven = TRUE
  /\ lone401 = "none"
  /\ notice = "none"
  /\ srvPatients = 1
  /\ srvSessions = <<>>
  /\ srvAlerts = <<>>
  /\ srvPrev = [patients |-> 0, sessions |-> <<>>, alerts |-> <<>>]

NextLive ==
  \/ \E t \in 1..MaxInFlight, vec \in TickVecs, old \in BOOLEAN :
       PollArrive(t, vec, old)
  \/ TimerTick
  \/ \E p \in PatientIds : StartMonitoringCall(p)
  \/ \E p \in PatientIds, out \in Outs : StartMonitoringReturn(p, out)
  \/ \E p \in PatientIds : StopMonitoringCall(p)
  \/ \E sid \in SessionIds, out \in Outs : StopMonitoringReturn(sid, out)
  \/ HandleLoginCall
  \/ \E out \in Outs : HandleLoginReturn(out)

AllOk == [e \in Endpoints |-> "ok"]

\* every request of the tick is answered with data from the present state
\* of the server
FreshArrival == \E t \in 1..MaxInFlight : PollArrive(t, AllOk, FALSE)

\* setInterval(fetchData, 30000) keeps firing while it is armed (168), and
\* the fetches of a tick succeed again and again
SpecLive ==
  /\ InitLive
  /\ [][NextLive]_vars
  /\ WF_vars(TimerTick)
  /\ SF_vars(FreshArrival)

\* ---- claims about the status resolver ----
\* the alerts (by position in the ledger) linked to patient p: their
\* session_id is the id of a registry session of p, whatever its status
LinkedTo(p) ==
  {i \in 1..Len(alerts) :
     \E j \in 1..Len(monitoringSessions) :
       /\ monitoringSessions[j].id = alerts[i].session_id
       /\ monitoringSessions[j].patient_id = p}

SeverityIn(p, sev) == \E i \in LinkedTo(p) : alerts[i].severity = sev

\* C1: every listed patient shows Critical if a linked alert is critical,
\* else High if one is high, else Moderate if any alert is linked, else
\* Stable, the linked alerts being those of the patient's sessions of any
\* status.
C1_StatusByPrecedence ==
  \A p \in DOMAIN status :
    status[p] = IF SeverityIn(p, "critical") THEN "Critical"
                ELSE IF SeverityIn(p, "high") THEN "High"
                ELSE IF LinkedTo(p) # {} THEN "Moderate"
                ELSE "Stable"

\* a patient shown High through a high and a moderate alert of a stopped
\* session, next to a patient shown Stable
C1_Witness ==
  \E p, q \in DOMAIN status :
    /\ status[p] = "High"
    /\ status[q] = "Stable"
    /\ SeverityIn(p, "moderate")
    /\ \A j \in 1..Len(monitoringSessions) :
         monitoringSessions[j].patient_id = p =>
           monitoringSessions[j].status = "stopped"

\* C2: a patient with at least one linked critical alert shows Critical,
\* whatever else is linked and whatever the order of the ledger.
C2_CriticalWins ==
  \A p \in DOMAIN status : SeverityIn(p, "critical") => status[p] = "Critical"

\* a critical alert behind a linked alert of lower severity in the ledger
C2_Witness ==
  \E p \in DOMAIN status :
    /\ status[p] = "Critical"
    /\ \E i, k \in LinkedTo(p) :
         /\ i < k
         /\ alerts[i].severity # "critical"
         /\ alerts[k].severity = "critical"

\* C3: a patient without linked alerts shows Stable, whatever is linked to
\* other patients.
C3_NoAlertsStable ==
  \A p \in DOMAIN status : LinkedTo(p) = {} => status[p] = "Stable"

\* a patient with a session but no linked alert, shown Stable while
\* another patient has a critical alert
C3_Witness ==
  \E p, q \in DOMAIN status :
    /\ p # q
    /\ LinkedTo(p) = {}
    /\ \E j \in 1..Len(monitoringSessions) : monitoringSessions[j].patient_id = p
    /\ SeverityIn(q, "critical")
    /\ status[p] = "Stable"

\* the scenario of C4: p has a stopped session s1 and an active session s2,
\* and a moderate alert on s1
StoppedAndActive(p, s1, s2) ==
  /\ s1 # s2
  /\ monitoringSessions[s1].patient_id = p
  /\ monitoringSessions[s2].patient_id = p
  /\ monitoringSessions[s1].status = "stopped"
  /\ monitoringSessions[s2].status = "active"
  /\ \E i \in 1..Len(alerts) :
       /\ alerts[i].session_id = monitoringSessions[s1].id
       /\ alerts[i].severity = "moderate"

OnSession(s) ==
  {i \in 1..Len(alerts) : alerts[i].session_id = monitoringSessions[s].id}

\* C4: with a moderate alert on the stopped session, no alert on the active
\* session and no linked alert above moderate the patient shows Moderate;
\* with a critical alert on the active session in the ledger the patient
\* shows Critical.
C4_StoppedSessionsCount ==
  \A p \in DOMAIN status :
    \A s1, s2 \in 1..Len(monitoringSessions) :
      StoppedAndActive(p, s1, s2) =>
        /\ (OnSession(s2) = {} /\ \A i \in LinkedTo(p) :
              alerts[i].severity = "moderate")
             => status[p] = "Moderate"
        /\ (\E i \in OnSession(s2) : alerts[i].severity = "critical")
             => status[p] = "Critical"

\* the critical alert on the active session has arrived after the moderate
\* alert of the stopped session
C4_Witness ==
  \E p \in DOMAIN status :
    \E s1, s2 \in 1..Len(monitoringSessions) :
      /\ StoppedAndActive(p, s1, s2)
      /\ Len(alerts) = 2
      /\ alerts[1].session_id = monitoringSessions[s1].id
      /\ alerts[2].session_id = monitoringSessions[s2].id
      /\ alerts[2].severity = "critical"
      /\ status[p] = "Critical"

\* ---- claims about sessions and polls ----
\* C5: whatever starts, stops and polls have happened, the cached session
\* registry never holds two entries of the same patient that are both
\* active.
C5_OneActivePerPatient ==
  \A p \in PatientIds : Cardinality(ActiveAt(p)) <= 1

\* a poll has brought a stopped session and a later active session of the
\* same patient into the registry
C5_Witness ==
  \E p \in PatientIds :
    /\ Cardinality(ActiveAt(p)) = 1
    /\ \E j \in 1..Len(monitoringSessions) :
         /\ monitoringSessions[j].patient_id = p
         /\ monitoringSessions[j].status = "stopped"
         /\ monitoringSessions[j].id < activeSession(p).id

\* C6: a step of startMonitoring (the request goes out, or it returns with
\* success or failure) leaves the session registry as it was; the new
\* session shows only when a poll commits it.
C6_StartLeavesRegistry ==
  [][(\E p \in PatientIds :
        CopiesIn(Req("start", p), reqs') # CopiesIn(Req("start", p), reqs))
       => monitoringSessions' = monitoringSessions]_vars

\* the start request has succeeded on the server and its re-poll is in
\* flight, the registry shows no active session of the patient
C6_Witness ==
  \E p \in PatientIds :
    /\ isLoggedIn
    /\ SrvHasActive(p)
    /\ ~isMonitoring(p)
    /\ ~BagIn(Req("start", p), reqs)
    /\ Len(polls) > 0
    /\ ~polls[Len(polls)].early

\* C7: a tick that settles after a tick issued later has committed the
\* session registry, and that carries the older state of the server, does
\* not overwrite the registry: the registry never goes back from the newer
\* snapshot to the older one.
C7_StaleTickDiscarded ==
  [][\A t \in 1..MaxInFlight, vec \in TickVecs :
       (t <= Len(polls) /\ polls[t].stale /\ PollArrive(t, vec, TRUE))
         => monitoringSessions' = monitoringSessions]_vars

\* a fetch goes out in the step: a tick of fetchData, or a request other
\* than the login
NewFetch ==
  \/ Len(polls') > Len(polls)
  \/ \E r \in BagToSet(reqs') :
       r.kind # "login" /\ CopiesIn(r, reqs') > CopiesIn(r, reqs)

\* C8: once a request has returned 401 and until a login succeeds, no step
\* issues a fetch, the step in which the 401 returns included.
C8_NoFetchAfter401 == [][authFailed' => ~NewFetch]_vars

\* C9: when the alerts request of a tick alone returns 401 and the other
\* three return data, the guard is false and no timer is armed once the
\* tick is handled.
C9_Lone401FlipsGuard ==
  lone401 = "al" => (~isLoggedIn /\ timer = 0)

\* such a tick has been handled: the three other registries hold the data
\* of the server, the guard is down and the timer cleared
C9_Witness ==
  /\ lone401 = "al"
  /\ ~isLoggedIn
  /\ timer = 0
  /\ patients # <<>>
  /\ monitoringSessions # <<>>
  /\ dashboardStats.total_patients > 0

Registry(e) ==
  CASE e = "pat" -> patients
    [] e = "st"  -> dashboardStats
    [] e = "al"  -> alerts
    [] e = "se"  -> monitoringSessions

\* C10: when a tick settles, every request of it that returned data has
\* its data in its registry, whatever the other requests of the tick
\* returned.
C10_EachFetchCommitted ==
  [][\A t \in 1..MaxInFlight, vec \in TickVecs, old \in BOOLEAN :
       PollArrive(t, vec, old) =>
         \A e \in Endpoints :
           vec[e] = "ok" =>
             Registry(e)' = Snapshot(e, IF old THEN srvPrev ELSE srv)]_vars

\* ---- claims about failed fetches and local preconditions ----
LogoutSettles ==
  CopiesIn(Req("logout", 0), reqs') < CopiesIn(Req("logout", 0), reqs)

\* a tick settles in the step
TickSettles == Len(polls') < Len(polls)

\* C11: when a tick settles, the registry of a request that alone returned
\* 401 is as it was, and every registry is as it was or holds the data the
\* server sent (it is never emptied); in any other step that is not the
\* end of a logout, the registries are as they were, whatever the step does
\* to the guard.
C11_FailedFetchKeepsRegistry ==
  [][/\ TickSettles =>
          \A e \in Endpoints : lone401' = e => Registry(e)' = Registry(e)
     /\ TickSettles =>
          \A e \in Endpoints :
            Registry(e)' \in {Registry(e), Snapshot(e, srv),
                              Snapshot(e, srvPrev)}
     /\ (~TickSettles /\ ~LogoutSettles) =>
          \A e \in Endpoints : Registry(e)' = Registry(e)]_vars

\* the patients request of a tick alone returned 401: the guard is down
\* and the patients registry still lists the patient
C11_Witness ==
  /\ lone401 = "pat"
  /\ ~isLoggedIn
  /\ patients # <<>>

\* C12: a tick that settles while the guard is down changes no registry.
C12_LateResultsDiscarded ==
  [][\A t \in 1..MaxInFlight, vec \in TickVecs, old \in BOOLEAN :
       (~isLoggedIn /\ PollArrive(t, vec, old)) =>
         \A e \in Endpoints : Registry(e)' = Registry(e)]_vars

\* C14: at most one start request of a patient is outstanding at any time.
C14_OneStartInFlight ==
  \A p \in PatientIds : CopiesIn(Req("start", p), reqs) <= 1

\* C13: a step that sends a start request for a patient is taken only
\* when the session registry shows no active session of that patient.
C13_NoStartWhenActive ==
  [][\A p \in PatientIds :
       CopiesIn(Req("start", p), reqs') > CopiesIn(Req("start", p), reqs)
         => ~isMonitoring(p)]_vars

\* the registry shows the patient under observation and no start request
\* is out: no Start button is rendered for the patient
C13_Witness ==
  \E p \in PatientIds :
    /\ isLoggedIn
    /\ Listed(p)
    /\ isMonitoring(p)
    /\ ~BagIn(Req("start", p), reqs)
    /\ ~ENABLED StartMonitoringCall(p)
    /\ ENABLED StopMonitoringCall(p)

ShowsActive(sid) ==
  \E i \in 1..Len(monitoringSessions) :
    /\ monitoringSessions[i].id = sid
    /\ monitoringSessions[i].status = "active"

\* C15: a step that sends a stop request for a session id is taken only
\* when the session registry shows that session active.
C15_StopOnlyActive ==
  [][\A sid \in SessionIds :
       CopiesIn(Req("stop", sid), reqs') > CopiesIn(Req("stop", sid), reqs)
         => ShowsActive(sid)]_vars

\* a stop request is out for the later of two sessions of a patient, the
\* earlier one shows stopped
C15_Witness ==
  \E sid \in SessionIds :
    /\ BagIn(Req("stop", sid), reqs)
    /\ ShowsActive(sid)
    /\ \E i \in 1..Len(monitoringSessions) :
         /\ monitoringSessions[i].id # sid
         /\ monitoringSessions[i].status = "stopped"

\* ---- claims about the guard and the timer ----
\* C16: in the initial state, before a login or the probe has succeeded,
\* the guard is false.
C16_InitiallyUnauthenticated == ~isLoggedIn /\ [][TRUE]_vars

\* C17: in every state where the guard is true a login or the startup
\* probe has succeeded since the guard was last false.
C17_GuardOnlyAfterAuth == isLoggedIn => authProven

\* C18: at most one timer is armed and only while the guard is true (it is
\* cleared in the step that brings the guard down), and a timer is armed
\* only in a step that takes the guard from false to true.
C18_TimerFollowsGuard ==
  /\ [](timer <= 1 /\ (timer > 0 => isLoggedIn))
  /\ [][timer' > timer => (~isLoggedIn /\ isLoggedIn')]_vars

\* a login after an authorization failure has armed the timer again
C18_Witness ==
  /\ isLoggedIn
  /\ timer = 1
  /\ user = "user"
  /\ authProven

\* C19: every step that takes the guard from false to true issues a poll
\* in the same step.
C19_PollOnAuthentication ==
  [][(~isLoggedIn /\ isLoggedIn') => Len(polls') > Len(polls)]_vars

\* a login has just succeeded: its poll is in flight and no request is out
C19_Witness ==
  /\ isLoggedIn
  /\ user = "user"
  /\ loading
  /\ Len(polls) > 0
  /\ ~polls[Len(polls)].early
  /\ patients = <<>>
  /\ reqs = EmptyBag

\* ---- claim about the selection of the active session ----
\* C20: when the registry holds several active sessions of a patient, the
\* session selected for the patient (the target of a stop) is the one with
\* the earliest start timestamp, whatever the order of the registry.
C20_EarliestActiveSelected ==
  \A p \in DOMAIN status :
    Cardinality(ActiveAt(p)) > 1 =>
      \A i \in ActiveAt(p) :
        activeSession(p).start_time <= monitoringSessions[i].start_time

\* C21: a commit of a session snapshot that shows more than one active
\* session for one patient is reported in the same step (a notice or log
\* line is written); it is never taken in silently.
C21_AnomalyReported ==
  [][\A p \in ListedIds :
       (/\ monitoringSessions' # monitoringSessions
        /\ Cardinality(ActiveAt(p)') > 1) => notice' # "none"]_vars

FailureNotices == {"Failed to start monitoring", "Failed to stop monitoring",
                   "Failed to add patient", "Login failed"}

FailedAction ==
  \/ \E p \in ListedIds : StartMonitoringReturn(p, "err")
  \/ \E sid \in SessionIds : StopMonitoringReturn(sid, "err")
  \/ AddPatientReturn("err")
  \/ HandleLoginReturn("err")

\* C22: a start, stop, add-patient or login request that fails with a network
\* failure surfaces a failure notice, and the step leaves the four registries
\* and the guard exactly as they were.
C22_FailedActionFailsClosed ==
  [][FailedAction =>
       /\ notice' \in FailureNotices
       /\ UNCHANGED <<registries, isLoggedIn>>]_vars

\* a failure notice is up over registries that hold data
C22_Witness ==
  /\ notice \in FailureNotices
  /\ isLoggedIn
  /\ patients # <<>>
  /\ monitoringSessions # <<>>

\* ---- claims about the writers of the registries ----
Cleared(e) == IF e = "st" THEN DefaultStats ELSE <<>>

\* C23: a registry changes only in the step in which a tick of fetchData
\* settles, and then to the data the server sent, or in the step that ends a
\* logout, and then to its cleared value; every step of startMonitoring,
\* stopMonitoring, addPatient, handleLogin and the startup probe leaves the
\* four registries and the labels computed by getPatientStatus as they were.
C23_RegistriesWrittenByPollAndLogout ==
  [][/\ \A e \in Endpoints :
          Registry(e)' # Registry(e) =>
            \/ TickSettles /\ Registry(e)' \in {Snapshot(e, srv),
                                                Snapshot(e, srvPrev)}
            \/ LogoutSettles /\ Registry(e)' = Cleared(e)
     /\ status' # status => (TickSettles \/ LogoutSettles)]_vars

\* a start request has just succeeded and the registry of sessions is
\* still empty
C23_Witness ==
  /\ notice = "Monitoring started"
  /\ patients # <<>>
  /\ monitoringSessions = <<>>
  /\ srvSessions # <<>>

ServedStates == {srv, srvPrev}

\* C24: when a tick settles and commits, the registry of every request that
\* returned data equals exactly the snapshot that was served, nothing of
\* its previous contents is kept: all four registries when the guard stays
\* up (no request returned 401, and a registry changed, so none threw), the
\* three others when one request alone returned 401.
C24_CommitReplacesWholesale ==
  [][TickSettles =>
       /\ (isLoggedIn /\ isLoggedIn' /\ registries' # registries) =>
            \E from \in ServedStates :
              \A e \in Endpoints : Registry(e)' = Snapshot(e, from)
       /\ lone401' # "none" =>
            \E from \in ServedStates :
              \A e \in Endpoints \ {lone401'} :
                Registry(e)' = Snapshot(e, from)]_vars

\* a commit after a stop: the registry that held the session as active
\* holds it once, as stopped, next to the alert filed for it
C24_Witness ==
  /\ monitoringSessions # <<>>
  /\ monitoringSessions = srvSessions
  /\ monitoringSessions[1].status = "stopped"
  /\ alerts # <<>>
  /\ alerts = srvAlerts
  /\ polls = <<>>

\* ---- claims about recovery ----
\* every registry holds the present state of the server
Synced == \A e \in Endpoints : Registry(e) = Snapshot(e, srv)

\* C26: a successful login sets the guard and arms the timer, also after an
\* authorization failure, and while the fetches keep succeeding the
\* registries of a user who has logged in come to hold the present state of
\* the server, unless the guard goes down again first.
C26_LoginRecovers ==
  /\ [][HandleLoginReturn("ok") => (isLoggedIn' /\ timer' = 1)]_vars
  /\ (isLoggedIn /\ user = "user") ~> (Synced \/ ~isLoggedIn)

\* the guard went down by an authorization failure, the user has logged in
\* again and a poll has brought the sessions of the server
C26_Witness ==
  /\ isLoggedIn
  /\ user = "user"
  /\ Synced
  /\ monitoringSessions # <<>>
  /\ polls = <<>>

\* C28: once the server holds an active session of a patient, the registry
\* comes to show the patient under observation by the polls of the timer
\* alone, whatever the poll issued by the start returns, unless the guard
\* goes down or the session is stopped first.
C28_StartedSessionShows ==
  \A p \in PatientIds :
    SrvHasActive(p) ~> (isMonitoring(p) \/ ~isLoggedIn \/ ~SrvHasActive(p))

\* the registry shows the second session of the patient as active, the
\* first one as stopped
C28_Witness ==
  \E p \in PatientIds :
    /\ isLoggedIn
    /\ SrvHasActive(p)
    /\ isMonitoring(p)
    /\ activeSession(p).id > 1
    /\ reqs = EmptyBag

\* ---- claims about the re-poll of an operation and about apiCall ----
SucceededAction ==
  \/ \E p \in PatientIds : StartMonitoringReturn(p, "ok")
  \/ \E sid \in SessionIds : StopMonitoringReturn(sid, "ok")
  \/ AddPatientReturn("ok")

\* C27: the step in which a start, stop or add-patient request returns with
\* success issues one tick of fetchData (its four requests) itself, next to
\* the ticks the timer has in flight.
C27_SuccessRepolls ==
  [][SucceededAction =>
       /\ Len(polls') = Len(polls) + 1
       /\ polls'[Len(polls')] = NewTick
       /\ loading']_vars

\* a start has just succeeded while a tick of the timer was in flight: the
\* tick of the start is out next to it
C27_Witness ==
  /\ notice = "Monitoring started"
  /\ Len(polls) = MaxInFlight
  /\ polls[1].early
  /\ polls[Len(polls)] = NewTick

Returned401 ==
  \/ \E p \in PatientIds : StartMonitoringReturn(p, "401")
  \/ \E sid \in SessionIds : StopMonitoringReturn(sid, "401")
  \/ AddPatientReturn("401")
  \/ HandleLoginReturn("401")
  \/ HandleLogoutReturn("401")
  \/ CheckAuthStatusReturn("401")

\* a request of a handler that sets the guard nowhere itself returns
ReturnedTo(out) ==
  \/ \E p \in PatientIds : StartMonitoringReturn(p, out)
  \/ \E sid \in SessionIds : StopMonitoringReturn(sid, out)
  \/ AddPatientReturn(out)

\* C29: a request that returns 401 takes the guard down, on every endpoint
\* (login, logout and the requests of a tick included), and does not throw:
\* no failure notice is shown; a request that returns data, or that throws
\* on another status or a network failure, leaves the guard as it was
\* unless its handler sets it.
C29_ApiCallOutcomes ==
  [][/\ Returned401 => (~isLoggedIn' /\ notice' = "none")
     /\ (~authFailed /\ authFailed') => ~isLoggedIn'
     /\ \A out \in {"ok", "err"} :
          ReturnedTo(out) => isLoggedIn' = isLoggedIn]_vars

\* a request has returned 401 while two ticks were in flight: the guard of
\* the user of the probe is down, the registries still hold data
C29_Witness ==
  /\ ~isLoggedIn
  /\ authFailed
  /\ user = "Doctor"
  /\ loading
  /\ Len(polls) = MaxInFlight
  /\ reqs = EmptyBag
  /\ patients # <<>>

\* ---- claim about logout ----
\* C30: the step in which handleLogout completes, with the server request
\* succeeded or failed, leaves the guard false, the user blank, the three
\* lists empty and the stats at their defaults.
C30_LogoutClearsLocalState ==
  [][LogoutSettles =>
       /\ ~isLoggedIn'
       /\ user' = ""
       /\ \A e \in Endpoints : Registry(e)' = Cleared(e)]_vars

\* ---- claim about responses that arrive after a logout ----
\* handleLogout has completed and no login has succeeded since: only
\* handleLogout blanks the user, and a successful login names it again
LoggedOut == user = "" /\ ~isLoggedIn

\* C31: once handleLogout has completed, the guard goes up again only in
\* the step in which a login request returns with success; the response of
\* the startup probe or of a tick that arrives after the logout leaves it
\* false.
C31_GuardStaysDownAfterLogout ==
  [][(LoggedOut /\ isLoggedIn') => HandleLoginReturn("ok")]_vars

\* ---- claims about the rows of the two pages ----
HasActiveSession(p) ==
  \E j \in 1..Len(monitoringSessions) :
    /\ monitoringSessions[j].patient_id = p
    /\ monitoringSessions[j].status = "active"

\* a click on the Stop control of the row of p sends a stop for session sid
StopSends(p, sid) ==
  ENABLED (StopMonitoringCall(p) /\ reqs' = Sent(Req("stop", sid)))

\* C32: the row of every listed patient offers exactly one control: Stop if
\* and only if the registry holds an active session of the patient, Start
\* otherwise; the Stop control sends one stop, for a session that is
\* active and belongs to the patient, also when the registry holds several
\* active sessions of the patient (the row is one row with one control).
C32_OneControlPerRow ==
  \A p \in DOMAIN status :
    /\ (ENABLED StopMonitoringCall(p)) <=> HasActiveSession(p)
    /\ (ENABLED StartMonitoringCall(p)) <=> ~HasActiveSession(p)
    /\ HasActiveSession(p) =>
         /\ Cardinality({sid \in SessionIds : StopSends(p, sid)}) = 1
         /\ \A sid \in SessionIds :
              StopSends(p, sid) =>
                \E j \in 1..Len(monitoringSessions) :
                  /\ monitoringSessions[j].id = sid
                  /\ monitoringSessions[j].patient_id = p
                  /\ monitoringSessions[j].status = "active"

\* one row offers Stop over two active sessions of its patient, the row of
\* a patient whose only session is stopped offers Start
C32_Witness ==
  \E p, q \in DOMAIN status :
    /\ Cardinality(ActiveAt(p)) > 1
    /\ ENABLED StopMonitoringCall(p)
    /\ ~ENABLED StartMonitoringCall(p)
    /\ ENABLED StartMonitoringCall(q)
    /\ ~ENABLED StopMonitoringCall(q)

\* the alert appended in the step belongs to a session of p in the registry
NewAlertLinked(p) ==
  \E j \in 1..Len(monitoringSessions) :
    /\ monitoringSessions[j].id = alerts'[Len(alerts')].session_id
    /\ monitoringSessions[j].patient_id = p

\* C33: a snapshot that brings one more alert changes the status of a
\* patient only if the registry holds a session with the alert's session_id
\* and the patient's id: an alert of another patient's session, or of a
\* session absent from the registry, leaves the status as it was.
C33_UnlinkedAlertIgnored ==
  [][\A p \in DOMAIN status :
       (Len(alerts') = Len(alerts) + 1 /\ ~NewAlertLinked(p)) =>
         status'[p] = status[p]]_vars

\* the ledger holds a critical alert of another patient's session and an
\* alert of a session the registry does not hold; the patient shows Stable
C33_Witness ==
  \E p, q \in DOMAIN status :
    /\ p # q
    /\ status[p] = "Stable"
    /\ status[q] = "Critical"
    /\ Len(alerts) = MaxLedger
    /\ \E j \in 1..Len(monitoringSessions) :
         monitoringSessions[j].patient_id = p
    /\ \E i \in 1..Len(alerts) :
         \A j \in 1..Len(monitoringSessions) :
           monitoringSessions[j].id # alerts[i].session_id

\* ---- claim about the loading flag ----
\* C34: loading is true exactly while a tick of fetchData or a login
\* request is in flight: a tick that settles while another is out leaves
\* it true, and it is false once nothing is in flight.
C34_LoadingTracksInFlight ==
  loading <=> (Len(polls) > 0 \/ BagIn(Req("login", 0), reqs))

====
